---- MODULE Spec2Model ----
(***************************************************************************)
(* State-machine model of the 2048 rules engine of src/src/model.ts:      *)
(* the pure functions move, prepareMove and continueGameModel with their  *)
(* helpers (matrix projection, slide/merge, spawn, status checks), and a  *)
(* caller that stores the returned Model.                                 *)
(*                                                                         *)
(* Positions are 0-based records as in the source; sequences are 1-based, *)
(* so the matrix cell of position p is matrix[p.row + 1][p.col + 1].      *)
(***************************************************************************)
EXTENDS Integers, Sequences, FiniteSets, TLC

\* ------------------------------------------------------------------------
\* CONFIG (model.ts 34-43)
\* ------------------------------------------------------------------------
gridSize == 4

tilesToSpawnPerMove == 2

winValue == 2048

TOTAL_TILES == gridSize * gridSize

\* ------------------------------------------------------------------------
\* Bounds of the model
\* ------------------------------------------------------------------------
\* number of board-changing moves followed from INITIAL_MODEL
MaxMoves == 3

\* input lines of the single-call specification use the tile values
\* 2^1 .. 2^MaxInputExp (and the same values scaled up to the win threshold)
MaxInputExp == 2

\* number of board-changing moves followed from the boards of the test helpers
MaxPlayMoves == 2

\* number of direction inputs the hook accepts (it counts them in renderCounter)
MaxInputs == 3

\* number of board-changing moves followed in the games played to their end
MaxEndMoves == 2

\* ------------------------------------------------------------------------
\* Shared values
\* ------------------------------------------------------------------------
\* JavaScript null (an empty matrix cell, a rejected move)
Null == [type |-> "null"]

Directions == {"left", "right", "up", "down"}

Statuses == {"playing", "won", "continue", "over"}

Indices == 0 .. (gridSize - 1)

ALL_POSITIONS ==
    [k \in 1 .. TOTAL_TILES |->
        [row |-> (k - 1) \div gridSize, col |-> (k - 1) % gridSize]]

\* ------------------------------------------------------------------------
\* utils.ts
\* ------------------------------------------------------------------------
reverseSeq(s) == [k \in 1 .. Len(s) |-> s[Len(s) + 1 - k]]

\* variant: a quarter turn in place of the transposition
transpose_rotate(arr) ==
    LET firstRow == IF Len(arr) > 0 THEN arr[1] ELSE << >>
    IN  [c \in 1 .. Len(firstRow) |->
            [r \in 1 .. Len(arr) |->
                IF c <= Len(arr[Len(arr) + 1 - r])
                THEN arr[Len(arr) + 1 - r][c] ELSE Null]]

transpose(arr) ==
    LET firstRow == IF Len(arr) > 0 THEN arr[1] ELSE << >>
    IN  [c \in 1 .. Len(firstRow) |->
            [r \in 1 .. Len(arr) |->
                IF c <= Len(arr[r]) THEN arr[r][c] ELSE Null]]

reverseRows(arr) == [r \in 1 .. Len(arr) |-> reverseSeq(arr[r])]

keepNonNil(arr) == SelectSeq(arr, LAMBDA x : x # Null)

\* Array.prototype.indexOf, 0-based, -1 when absent.  The source compares object
\* identity; the tiles of one matrix row carry pairwise distinct position
\* fields, so equality of records identifies the same tile.
indexOf(arr, x) ==
    IF \E k \in 1 .. Len(arr) : arr[k] = x
    THEN (CHOOSE k \in 1 .. Len(arr) :
            arr[k] = x /\ \A j \in 1 .. (k - 1) : arr[j] # x) - 1
    ELSE -1

\* ------------------------------------------------------------------------
\* TILE STATE OPS (model.ts 67-88)
\* ------------------------------------------------------------------------
TileOps_static(t) ==
    [position |-> t.position, value |-> t.value, state |-> [type |-> "static"]]

TileOps_moved(t) ==
    [position |-> t.position, value |-> t.value,
     state |-> [type |-> "moved", from |-> t.position]]

\* variant: the display value is stored as the pre-merge value
TileOps_merged_displayValue(a, b) ==
    [position |-> a.position, value |-> a.value * 2,
     state |-> [type |-> "merged", from1 |-> a.position,
                from2 |-> b.position, value |-> a.value * 2]]

\* variant: the two sources are recorded in the other order
TileOps_merged_swapped(a, b) ==
    [position |-> a.position, value |-> a.value * 2,
     state |-> [type |-> "merged", from1 |-> b.position,
                from2 |-> a.position, value |-> a.value]]

\* variant: merging adds 2 instead of doubling
TileOps_merged_plusTwo(a, b) ==
    [position |-> a.position, value |-> a.value + 2,
     state |-> [type |-> "merged", from1 |-> a.position,
                from2 |-> b.position, value |-> a.value]]

TileOps_merged(a, b) ==
    [position |-> a.position, value |-> a.value * 2,
     state |-> [type |-> "merged", from1 |-> a.position,
                from2 |-> b.position, value |-> a.value]]

TileOps_spawned(pos, value) ==
    [position |-> pos, value |-> value, state |-> [type |-> "spawned"]]

\* ------------------------------------------------------------------------
\* MATRIX OPS (model.ts 94-114)
\* ------------------------------------------------------------------------
emptyMatrix ==
    [r \in 1 .. gridSize |-> [c \in 1 .. gridSize |-> Null]]

\* the for loop of tilesToMatrix: a later tile overwrites an earlier one at the
\* same cell; a tile whose row does not exist is skipped.  (Every board of this
\* model has its columns in range too.)
RECURSIVE placeTiles(_, _, _)
placeTiles(matrix, tiles, k) ==
    IF k > Len(tiles) THEN matrix
    ELSE LET t == tiles[k]
             r == t.position.row
             c == t.position.col
         IN  placeTiles(
                 IF r \in Indices /\ c \in Indices
                 THEN [matrix EXCEPT ![r + 1][c + 1] = t]
                 ELSE matrix,
                 tiles, k + 1)

tilesToMatrix(tiles) == placeTiles(emptyMatrix, tiles, 1)

\* variant: positions counted from 1
setPositionsFromMatrix_oneBased(matrix) ==
    [r \in 1 .. Len(matrix) |->
        [c \in 1 .. Len(matrix[r]) |->
            IF matrix[r][c] # Null
            THEN [matrix[r][c] EXCEPT !.position = [row |-> r, col |-> c]]
            ELSE Null]]

setPositionsFromMatrix(matrix) ==
    [r \in 1 .. Len(matrix) |->
        [c \in 1 .. Len(matrix[r]) |->
            IF matrix[r][c] # Null
            THEN [matrix[r][c] EXCEPT !.position = [row |-> r - 1, col |-> c - 1]]
            ELSE Null]]

RECURSIVE flatten(_)
flatten(matrix) ==
    IF Len(matrix) = 0 THEN << >> ELSE Head(matrix) \o flatten(Tail(matrix))

\* ------------------------------------------------------------------------
\* SLIDE + MERGE ROW (model.ts 120-144)
\* ------------------------------------------------------------------------
\* variant: the merged partner is not skipped, so it merges again
RECURSIVE mergeLoop_noSkip(_, _, _)
mergeLoop_noSkip(row, compact, i) ==
    IF i >= Len(compact) THEN << >>
    ELSE LET current == compact[i + 1]
             hasNext == i + 1 < Len(compact)
         IN  IF hasNext /\ current.value = compact[i + 2].value
             THEN <<TileOps_merged(current, compact[i + 2])>>
                      \o mergeLoop_noSkip(row, compact, i + 1)
             ELSE <<IF i = indexOf(row, current)
                    THEN TileOps_static(current)
                    ELSE TileOps_moved(current)>>
                      \o mergeLoop_noSkip(row, compact, i + 1)

\* variant: the Static and Moved tags are exchanged
RECURSIVE mergeLoop_tagsSwapped(_, _, _)
mergeLoop_tagsSwapped(row, compact, i) ==
    IF i >= Len(compact) THEN << >>
    ELSE LET current == compact[i + 1]
             hasNext == i + 1 < Len(compact)
         IN  IF hasNext /\ current.value = compact[i + 2].value
             THEN <<TileOps_merged(current, compact[i + 2])>>
                      \o mergeLoop_tagsSwapped(row, compact, i + 2)
             ELSE <<IF i = indexOf(row, current)
                    THEN TileOps_moved(current)
                    ELSE TileOps_static(current)>>
                      \o mergeLoop_tagsSwapped(row, compact, i + 1)

\* variant: the index is looked up in the compacted row, where it always is i
RECURSIVE mergeLoop_compactIndex(_, _, _)
mergeLoop_compactIndex(row, compact, i) ==
    IF i >= Len(compact) THEN << >>
    ELSE LET current == compact[i + 1]
             hasNext == i + 1 < Len(compact)
         IN  IF hasNext /\ current.value = compact[i + 2].value
             THEN <<TileOps_merged(current, compact[i + 2])>>
                      \o mergeLoop_compactIndex(row, compact, i + 2)
             ELSE <<IF i = indexOf(compact, current)
                    THEN TileOps_static(current)
                    ELSE TileOps_moved(current)>>
                      \o mergeLoop_compactIndex(row, compact, i + 1)

\* variant: a tile that stays where it is keeps the state it came with
RECURSIVE mergeLoop_keepState(_, _, _)
mergeLoop_keepState(row, compact, i) ==
    IF i >= Len(compact) THEN << >>
    ELSE LET current == compact[i + 1]
             hasNext == i + 1 < Len(compact)
         IN  IF hasNext /\ current.value = compact[i + 2].value
             THEN <<TileOps_merged(current, compact[i + 2])>>
                      \o mergeLoop_keepState(row, compact, i + 2)
             ELSE <<IF i = indexOf(row, current)
                    THEN current
                    ELSE TileOps_moved(current)>>
                      \o mergeLoop_keepState(row, compact, i + 1)

\* the for loop of slideAndMergeRowLeft from index i (0-based) on: the list of
\* tiles it pushes to `merged`
RECURSIVE mergeLoop(_, _, _)
mergeLoop(row, compact, i) ==
    IF i >= Len(compact) THEN << >>
    ELSE LET current == compact[i + 1]
             hasNext == i + 1 < Len(compact)
         IN  IF hasNext /\ current.value = compact[i + 2].value
             THEN <<TileOps_merged(current, compact[i + 2])>>
                      \o mergeLoop(row, compact, i + 2)
             ELSE <<IF i = indexOf(row, current)
                    THEN TileOps_static(current)
                    ELSE TileOps_moved(current)>>
                      \o mergeLoop(row, compact, i + 1)

slideAndMergeRowLeft(row) ==
    LET compact == keepNonNil(row)
        merged == mergeLoop(row, compact, 0)
        nullCount == gridSize - Len(merged)
    IN  merged \o [k \in 1 .. nullCount |-> Null]

\* ------------------------------------------------------------------------
\* SLIDE MATRIX (model.ts 150-186)
\* ------------------------------------------------------------------------
slideLeft(matrix) ==
    [r \in 1 .. Len(matrix) |-> slideAndMergeRowLeft(matrix[r])]

\* variant: "down" without the row reversal, so it slides like "up"
slideAndMergeMatrix_downAsUp(matrix, dir) ==
    CASE dir = "left" -> slideLeft(matrix)
      [] dir = "right" -> reverseRows(slideLeft(reverseRows(matrix)))
      [] dir = "up" -> transpose(slideLeft(transpose(matrix)))
      [] dir = "down" -> transpose(slideLeft(transpose(matrix)))

slideAndMergeMatrix(matrix, dir) ==
    CASE dir = "left" -> slideLeft(matrix)
      [] dir = "right" -> reverseRows(slideLeft(reverseRows(matrix)))
      [] dir = "up" -> transpose(slideLeft(transpose(matrix)))
      [] dir = "down" ->
            transpose(reverseRows(slideLeft(reverseRows(transpose(matrix)))))

slideAndMergeTiles(tiles, dir) ==
    keepNonNil(flatten(setPositionsFromMatrix(
        slideAndMergeMatrix(tilesToMatrix(tiles), dir))))

\* ------------------------------------------------------------------------
\* Random source (model.test.ts 5-12, createMockRandom)
\* ------------------------------------------------------------------------
\* A number of [0,1) is the exact fraction num/den.
RandomValues == {[num |-> 1, den |-> 2], [num |-> 19, den |-> 20]}

\* the mock generators handed to move: they cycle through a list of two numbers
MockValueLists == [1 .. 2 -> RandomValues]

createMockRandom(values) == [values |-> values, index |-> 0]

\* one call random(): the value returned and the generator afterwards
callRandom(random) ==
    [val |-> random.values[(random.index % Len(random.values)) + 1],
     random |-> [random EXCEPT !.index = @ + 1]]

\* variant: Math.round in place of Math.floor
floorTimes_round(r, n) == (2 * r.num * n + r.den) \div (2 * r.den)

\* Math.floor(r * n)
floorTimes(r, n) == (r.num * n) \div r.den

\* r < 0.9
lessThanNineTenths(r) == r.num * 10 < 9 * r.den

\* ------------------------------------------------------------------------
\* SPAWN LOGIC (model.ts 192-209)
\* ------------------------------------------------------------------------
getEmptyPositions(tiles) ==
    LET matrix == tilesToMatrix(tiles)
    IN  SelectSeq(ALL_POSITIONS, LAMBDA p : matrix[p.row + 1][p.col + 1] = Null)

\* variant: the chosen cell stays in the candidate list
spliceOne_keep(arr, idx) == arr

\* empty.splice(idx, 1): the list without its element at 0-based index idx
spliceOne(arr, idx) ==
    [k \in 1 .. (Len(arr) - 1) |-> IF k <= idx THEN arr[k] ELSE arr[k + 1]]

\* variant: the loop runs once more than tilesToSpawnPerMove
RECURSIVE spawnLoop_oneMore(_, _, _, _)
spawnLoop_oneMore(i, empty, newTiles, random) ==
    IF ~(i <= tilesToSpawnPerMove /\ Len(empty) > 0)
    THEN [tiles |-> newTiles, random |-> random]
    ELSE LET d1 == callRandom(random)
             idx == floorTimes(d1.val, Len(empty))
         IN  IF idx >= 0 /\ idx < Len(empty)
             THEN LET pos == empty[idx + 1]
                      d2 == callRandom(d1.random)
                      value == IF lessThanNineTenths(d2.val) THEN 2 ELSE 4
                  IN  spawnLoop_oneMore(i + 1, spliceOne(empty, idx),
                                Append(newTiles, TileOps_spawned(pos, value)),
                                d2.random)
             ELSE spawnLoop_oneMore(i + 1, empty, newTiles, d1.random)

\* variant: the loop does not stop when no empty cell is left
RECURSIVE spawnLoop_noEmptyGuard(_, _, _, _)
spawnLoop_noEmptyGuard(i, empty, newTiles, random) ==
    IF ~(i < tilesToSpawnPerMove)
    THEN [tiles |-> newTiles, random |-> random]
    ELSE LET d1 == callRandom(random)
             idx == floorTimes(d1.val, Len(empty))
         IN  IF idx >= 0 /\ idx < Len(empty)
             THEN LET pos == empty[idx + 1]
                      d2 == callRandom(d1.random)
                      value == IF lessThanNineTenths(d2.val) THEN 2 ELSE 4
                  IN  spawnLoop_noEmptyGuard(i + 1, spliceOne(empty, idx),
                                Append(newTiles, TileOps_spawned(pos, value)),
                                d2.random)
             ELSE spawnLoop_noEmptyGuard(i + 1, empty, newTiles, d1.random)

\* the for loop of spawnRandomTiles from iteration i on
RECURSIVE spawnLoop(_, _, _, _)
spawnLoop(i, empty, newTiles, random) ==
    IF ~(i < tilesToSpawnPerMove /\ Len(empty) > 0)
    THEN [tiles |-> newTiles, random |-> random]
    ELSE LET d1 == callRandom(random)
             idx == floorTimes(d1.val, Len(empty))
         IN  IF idx >= 0 /\ idx < Len(empty)
             THEN LET pos == empty[idx + 1]
                      d2 == callRandom(d1.random)
                      value == IF lessThanNineTenths(d2.val) THEN 2 ELSE 4
                  IN  spawnLoop(i + 1, spliceOne(empty, idx),
                                Append(newTiles, TileOps_spawned(pos, value)),
                                d2.random)
             ELSE spawnLoop(i + 1, empty, newTiles, d1.random)

\* returns the new tile list and the generator after the draws
spawnRandomTiles(tiles, random) ==
    spawnLoop(0, getEmptyPositions(tiles), tiles, random)

\* ------------------------------------------------------------------------
\* SCORE + STATUS CHECKS (model.ts 215-249)
\* ------------------------------------------------------------------------
RECURSIVE sumSeq(_)
sumSeq(s) == IF Len(s) = 0 THEN 0 ELSE Head(s) + sumSeq(Tail(s))

\* variant: the pre-merge value kept in the state is summed
scoreFromTiles_preMergeValue(tiles) ==
    LET merged == SelectSeq(tiles, LAMBDA t : t.state.type = "merged")
    IN  sumSeq([k \in 1 .. Len(merged) |-> merged[k].state.value])

\* variant: the reducer subtracts
scoreFromTiles_subtract(tiles) ==
    LET merged == SelectSeq(tiles, LAMBDA t : t.state.type = "merged")
    IN  0 - sumSeq([k \in 1 .. Len(merged) |-> merged[k].value])

scoreFromTiles(tiles) ==
    LET merged == SelectSeq(tiles, LAMBDA t : t.state.type = "merged")
    IN  sumSeq([k \in 1 .. Len(merged) |-> merged[k].value])

sumScoreDeltas(deltas) == sumSeq(deltas)

\* variant: the threshold itself does not win
hasWinningTile_strict(tiles) == \E k \in 1 .. Len(tiles) : tiles[k].value > winValue

hasWinningTile(tiles) == \E k \in 1 .. Len(tiles) : tiles[k].value >= winValue

neighbourDirs == {<<0, 1>>, <<1, 0>>, <<0, -1>>, <<-1, 0>>}

\* the neighbour test of noMovesLeft: some tile next to (row, col) in one of
\* the directions `dirs` has the value `value`
hasEqualNeighbour(matrix, row, col, value, dirs) ==
    \E d \in dirs :
        /\ row + d[1] \in Indices
        /\ col + d[2] \in Indices
        /\ matrix[row + d[1] + 1][col + d[2] + 1] # Null
        /\ matrix[row + d[1] + 1][col + d[2] + 1].value = value

\* variant: without the early return for a board that is not full
noMovesLeft_noFullCheck(tiles) ==
    LET matrix == tilesToMatrix(tiles)
    IN  \A k \in 1 .. Len(tiles) :
            ~hasEqualNeighbour(matrix, tiles[k].position.row,
                               tiles[k].position.col, tiles[k].value,
                               neighbourDirs)

\* variant: the early return also taken for a full board
noMovesLeft_offByOne(tiles) ==
    IF Len(tiles) <= gridSize * gridSize THEN FALSE
    ELSE LET matrix == tilesToMatrix(tiles)
         IN  \A k \in 1 .. Len(tiles) :
                ~hasEqualNeighbour(matrix, tiles[k].position.row,
                                   tiles[k].position.col, tiles[k].value,
                                   neighbourDirs)

\* variant: only the neighbours in the same row are compared
noMovesLeft_rowsOnly(tiles) ==
    IF Len(tiles) < gridSize * gridSize THEN FALSE
    ELSE LET matrix == tilesToMatrix(tiles)
         IN  \A k \in 1 .. Len(tiles) :
                ~hasEqualNeighbour(matrix, tiles[k].position.row,
                                   tiles[k].position.col, tiles[k].value,
                                   {<<0, 1>>, <<0, -1>>})

\* variant: `some` in place of `every`
noMovesLeft_some(tiles) ==
    IF Len(tiles) < gridSize * gridSize THEN FALSE
    ELSE LET matrix == tilesToMatrix(tiles)
         IN  \E k \in 1 .. Len(tiles) :
                ~hasEqualNeighbour(matrix, tiles[k].position.row,
                                   tiles[k].position.col, tiles[k].value,
                                   neighbourDirs)

noMovesLeft(tiles) ==
    IF Len(tiles) < gridSize * gridSize THEN FALSE
    ELSE LET matrix == tilesToMatrix(tiles)
         IN  \A k \in 1 .. Len(tiles) :
                ~hasEqualNeighbour(matrix, tiles[k].position.row,
                                   tiles[k].position.col, tiles[k].value,
                                   neighbourDirs)

\* ------------------------------------------------------------------------
\* MODEL TYPES + INITIAL STATE (model.ts 255-277)
\* ------------------------------------------------------------------------
staticTile(value, row, col) ==
    [position |-> [row |-> row, col |-> col], value |-> value,
     state |-> [type |-> "static"]]

INITIAL_MODEL ==
    [tiles |-> <<staticTile(2, 0, 0), staticTile(4, 0, 2), staticTile(2, 1, 1),
                 staticTile(8, 2, 3), staticTile(2, 3, 2)>>,
     scoreDeltas |-> << >>,
     gameStatus |-> "playing",
     bestScore |-> 0]

\* ------------------------------------------------------------------------
\* MODEL HELPERS (model.ts 283-292)
\* ------------------------------------------------------------------------
\* variant: continuing starts a new score history
continueGameModel_resetScore(m) ==
    IF m.gameStatus = "won"
    THEN [m EXCEPT !.gameStatus = "continue", !.scoreDeltas = << >>]
    ELSE m

\* variant: a game that is over is continued too
continueGameModel_fromTerminal(m) ==
    IF m.gameStatus \in {"won", "over"}
    THEN [m EXCEPT !.gameStatus = "continue"]
    ELSE m

continueGameModel(m) ==
    IF m.gameStatus = "won" THEN [m EXCEPT !.gameStatus = "continue"] ELSE m

\* variant: a game that is over is not rejected
prepareMove_rejectWonOnly(m) ==
    IF m.gameStatus = "won" THEN Null
    ELSE [m EXCEPT !.tiles = [k \in 1 .. Len(m.tiles) |-> TileOps_static(m.tiles[k])]]

\* variant: the tile states are left as they are
prepareMove_noNormalise(m) ==
    IF m.gameStatus \in {"won", "over"} THEN Null ELSE m

prepareMove(m) ==
    IF m.gameStatus \in {"won", "over"} THEN Null
    ELSE [m EXCEPT !.tiles = [k \in 1 .. Len(m.tiles) |-> TileOps_static(m.tiles[k])]]

\* ------------------------------------------------------------------------
\* MAIN MOVE FUNCTION (model.ts 298-335)
\* ------------------------------------------------------------------------
\* variant: the best score is overwritten by the new score
maxOf_second(a, b) == b

\* variant: the best score is never raised
maxOf_first(a, b) == a

maxOf(a, b) == IF a >= b THEN a ELSE b

everyStatic(tiles) == \A k \in 1 .. Len(tiles) : tiles[k].state.type = "static"

\* variant: the win check is made whatever the status
moveSlid_winInAnyStatus(m, random, moved) ==
    IF everyStatic(moved)
    THEN [result |-> IF noMovesLeft(m.tiles)
                     THEN [m EXCEPT !.gameStatus = "over"]
                     ELSE Null,
          random |-> random, moved |-> moved]
    ELSE
    LET scoreDelta == scoreFromTiles(moved)
        newDeltas == Append(m.scoreDeltas, scoreDelta)
        newScore == sumScoreDeltas(newDeltas)
        bestScore == maxOf(m.bestScore, newScore)
    IN  IF hasWinningTile(moved)
        THEN [result |-> [tiles |-> moved, scoreDeltas |-> newDeltas,
                          gameStatus |-> "won", bestScore |-> bestScore],
              random |-> random, moved |-> moved]
        ELSE
        LET sp == spawnRandomTiles(moved, random)
            newStatus == IF noMovesLeft(sp.tiles) THEN "over" ELSE m.gameStatus
        IN  [result |-> [tiles |-> sp.tiles, scoreDeltas |-> newDeltas,
                         gameStatus |-> newStatus, bestScore |-> bestScore],
             random |-> sp.random, moved |-> moved]

\* move returns the MaybeModel; the model also returns the generator as the
\* call leaves it (the side effect of move on its `random` argument) and the
\* value of the local `moved` (null when the slide was not computed).
\* moveSlid is the body of move after the slide, `moved` being its result.
moveSlid(m, random, moved) ==
    IF everyStatic(moved)
    THEN [result |-> IF noMovesLeft(m.tiles)
                     THEN [m EXCEPT !.gameStatus = "over"]
                     ELSE Null,
          random |-> random, moved |-> moved]
    ELSE
    LET scoreDelta == scoreFromTiles(moved)
        newDeltas == Append(m.scoreDeltas, scoreDelta)
        newScore == sumScoreDeltas(newDeltas)
        bestScore == maxOf(m.bestScore, newScore)
    IN  IF m.gameStatus = "playing" /\ hasWinningTile(moved)
        THEN [result |-> [tiles |-> moved, scoreDeltas |-> newDeltas,
                          gameStatus |-> "won", bestScore |-> bestScore],
              random |-> random, moved |-> moved]
        ELSE
        LET sp == spawnRandomTiles(moved, random)
            newStatus == IF noMovesLeft(sp.tiles) THEN "over" ELSE m.gameStatus
        IN  [result |-> [tiles |-> sp.tiles, scoreDeltas |-> newDeltas,
                         gameStatus |-> newStatus, bestScore |-> bestScore],
             random |-> sp.random, moved |-> moved]

\* variant: a won game is not rejected
move_rejectOverOnly(m, dir, random) ==
    IF m.gameStatus = "over"
    THEN [result |-> Null, random |-> random, moved |-> Null]
    ELSE moveSlid(m, random, slideAndMergeTiles(m.tiles, dir))

move(m, dir, random) ==
    IF m.gameStatus \in {"won", "over"}
    THEN [result |-> Null, random |-> random, moved |-> Null]
    ELSE moveSlid(m, random, slideAndMergeTiles(m.tiles, dir))

\* ------------------------------------------------------------------------
\* Input boards of the single-call specification
\* ------------------------------------------------------------------------
\* createBoard (unnamed/part_005 25-46): a matrix of numbers, 0 for an empty
\* cell, to the list of Static tiles in row-major order
createBoard(pattern) ==
    LET cells == flatten([r \in 1 .. Len(pattern) |->
                    [c \in 1 .. Len(pattern[r]) |->
                        IF pattern[r][c] # 0
                        THEN staticTile(pattern[r][c], r - 1, c - 1)
                        ELSE Null]])
    IN  keepNonNil(cells)

emptyPattern == [r \in 1 .. gridSize |-> [c \in 1 .. gridSize |-> 0]]

\* the board of createTestGameOverModel (model.ts 361-373): a checkerboard of 2/4
gameOverPattern ==
    [r \in 1 .. gridSize |-> [c \in 1 .. gridSize |->
        IF ((r - 1) + (c - 1)) % 2 = 0 THEN 2 ELSE 4]]

RECURSIVE pow2(_)
pow2(e) == IF e = 0 THEN 1 ELSE 2 * pow2(e - 1)

InputValues == {pow2(e) : e \in 1 .. MaxInputExp}

\* a line is played with small values and with the same values scaled so that
\* the largest one is the win threshold
InputScales == {1, winValue \div pow2(MaxInputExp)}

LinePatterns == [1 .. gridSize -> {0} \cup InputValues]

\* the pattern `base` with its row i (horizontal) or column i replaced by line
overlayLine(base, horizontal, i, line) ==
    [r \in 1 .. gridSize |-> [c \in 1 .. gridSize |->
        IF horizontal /\ r = i THEN line[c]
        ELSE IF ~horizontal /\ c = i THEN line[r]
        ELSE base[r][c]]]

LinePatternBoards ==
    {overlayLine(emptyPattern, h, i, [k \in 1 .. gridSize |-> line[k] * scale]) :
        h \in BOOLEAN, i \in 1 .. gridSize, line \in LinePatterns,
        scale \in InputScales}
    \cup
    {overlayLine(gameOverPattern, h, i, line) :
        h \in BOOLEAN, i \in 1 .. gridSize, line \in LinePatterns}

\* the board of INITIAL_MODEL (model.ts 266-277)
initialPattern ==
    <<<<2, 0, 4, 0>>, <<0, 2, 0, 0>>, <<0, 0, 0, 8>>, <<0, 0, 2, 0>>>>

\* the board of createAllTestTilesModel (model.ts 375-394)
allTestTilesPattern ==
    <<<<2, 4, 8, 16>>, <<32, 64, 128, 256>>, <<512, 1024, 2048, 4096>>,
      <<0, 0, 0, 0>>>>

\* the board of the test `should NOT end game when board is not full`
\* (model.test.ts 16-34)
notFullPattern ==
    <<<<2, 4, 2, 4>>, <<4, 2, 4, 2>>, <<2, 4, 0, 0>>, <<0, 0, 0, 0>>>>

\* full boards without equal neighbours: the checkerboard, mirrored and scaled
checkerPatterns ==
    {[r \in 1 .. gridSize |-> [c \in 1 .. gridSize |-> p[r][c] * scale]] :
        p \in {gameOverPattern, reverseRows(gameOverPattern)},
        scale \in InputScales}

InputPatterns ==
    LinePatternBoards \cup checkerPatterns
        \cup {initialPattern, allTestTilesPattern, notFullPattern}

\* score history and best score of an input model
InputScores ==
    {[scoreDeltas |-> <<4, 16>>, bestScore |-> 36]}

InputModels ==
    {[tiles |-> createBoard(p), scoreDeltas |-> s.scoreDeltas,
      gameStatus |-> st, bestScore |-> s.bestScore] :
        p \in InputPatterns, s \in InputScores, st \in Statuses}

\* ------------------------------------------------------------------------
\* The caller: it owns the Model and stores what the functions return
\* (App.tsx 84-130)
\* ------------------------------------------------------------------------
VARIABLES
    model,      \* the stored Model
    lastCall,   \* the last call made: operation, arguments, what it returned
    moves,      \* number of move calls so far that returned a model
    hook        \* what useTileSlide holds besides the rendered model: the
                \* state updates not rendered yet, the animation-frame
                \* callbacks not run yet, randomRef, the inputs received

vars == <<model, lastCall, moves, hook>>

noCall == [op |-> "none"]

\* the hook when the functions are called directly, as in the tests: nothing
\* queued, the generator handed to each call
noHook ==
    [updates |-> << >>, frames |-> << >>, randomRef |-> Null, renderCounter |-> 0]

Init ==
    /\ model = INITIAL_MODEL
    /\ lastCall = noCall
    /\ moves = 0
    /\ hook = noHook

InitMove ==
    /\ model \in InputModels
    /\ lastCall = noCall
    /\ moves = 0
    /\ hook = noHook

\* move(model, dir, createMockRandom(values)); a null result leaves the stored
\* model as it is
Move(dir, values) ==
    \E r \in {move(model, dir, createMockRandom(values))} :
        /\ model' = IF r.result = Null THEN model ELSE r.result
        /\ lastCall' = [op |-> "move", input |-> model, dir |-> dir,
                        result |-> r.result, moved |-> r.moved,
                        calls |-> r.random.index,
                        draws |-> [k \in 1 .. r.random.index |->
                                      values[((k - 1) % Len(values)) + 1]]]
        /\ moves' = IF r.result = Null THEN moves ELSE moves + 1
        /\ UNCHANGED hook

PrepareMove ==
    \E r \in {prepareMove(model)} :
        /\ model' = IF r = Null THEN model ELSE r
        /\ lastCall' = [op |-> "prepareMove", input |-> model, result |-> r]
        /\ UNCHANGED <<moves, hook>>

ContinueGame ==
    \E r \in {continueGameModel(model)} :
        /\ model' = r
        /\ lastCall' = [op |-> "continueGameModel", input |-> model, result |-> r]
        /\ UNCHANGED <<moves, hook>>

GameMove == \E dir \in Directions, values \in MockValueLists :
    moves < MaxMoves /\ Move(dir, values)

Next == GameMove \/ PrepareMove \/ ContinueGame

Spec == Init /\ [][Next]_vars

\* one call of one function on an arbitrary input model
MoveOnce == \E dir \in Directions, values \in MockValueLists :
    lastCall = noCall /\ Move(dir, values)

PrepareOnce == lastCall = noCall /\ PrepareMove

ContinueOnce == lastCall = noCall /\ ContinueGame

NextMove == MoveOnce \/ PrepareOnce \/ ContinueOnce

SpecMove == InitMove /\ [][NextMove]_vars

\* ------------------------------------------------------------------------
\* TEST HELPERS (model.ts 341-394) and the games played from the boards they
\* set up (App.tsx 105-115)
\* ------------------------------------------------------------------------
createTestWinModel(m) ==
    [m EXCEPT !.tiles = <<staticTile(1024, 0, 0), staticTile(1024, 0, 1)>>,
              !.gameStatus = "playing",
              !.scoreDeltas = << >>]

createTestGameOverModel(m) ==
    [m EXCEPT !.tiles = [k \in 1 .. TOTAL_TILES |->
                            staticTile(
                                IF (ALL_POSITIONS[k].row + ALL_POSITIONS[k].col) % 2 = 0
                                THEN 2 ELSE 4,
                                ALL_POSITIONS[k].row, ALL_POSITIONS[k].col)],
              !.gameStatus = "playing",
              !.scoreDeltas = << >>]

createAllTestTilesModel(m) ==
    LET values == <<2, 4, 8, 16, 32, 64, 128, 256, 512, 1024, 2048, 4096>>
    IN  [m EXCEPT !.tiles = [k \in 1 .. Len(values) |->
                                staticTile(values[k], ALL_POSITIONS[k].row,
                                           ALL_POSITIONS[k].col)],
                  !.gameStatus = "playing",
                  !.scoreDeltas = << >>]

\* the model the application starts from when a best score was saved earlier
\* (App.tsx 84-87: INITIAL_MODEL with bestScore loaded from storage)
loadedModel == [INITIAL_MODEL EXCEPT !.bestScore = 36]

\* a full checkerboard but for one cell of the first row: sliding left closes
\* the gap and the spawn fills the board
nearOverPattern ==
    overlayLine(gameOverPattern, TRUE, 1, <<2, 4, 0, 2>>)

\* a game that was won and continued, holding two tiles of half the threshold
continuedPattern ==
    <<<<1024, 1024, 0, 0>>, <<0, 0, 0, 0>>, <<0, 0, 0, 0>>, <<0, 0, 0, 2048>>>>

\* the boards a game is played from: the initial one and those set up later
PlayModels ==
    {INITIAL_MODEL,
     createTestWinModel(loadedModel),
     createTestGameOverModel(loadedModel),
     createAllTestTilesModel(loadedModel),
     [loadedModel EXCEPT !.tiles = createBoard(nearOverPattern)],
     [tiles |-> createBoard(continuedPattern), scoreDeltas |-> <<2048>>,
      gameStatus |-> "continue", bestScore |-> 2048]}

InitPlay ==
    /\ model \in PlayModels
    /\ lastCall = noCall
    /\ moves = 0
    /\ hook = noHook

PlayMove == \E dir \in Directions, values \in MockValueLists :
    moves < MaxPlayMoves /\ Move(dir, values)

NextPlay == PlayMove \/ PrepareMove \/ ContinueGame

SpecPlay == InitPlay /\ [][NextPlay]_vars

\* ------------------------------------------------------------------------
\* The helpers of move applied to a board on their own: the slide
\* (model.ts 177-186), noMovesLeft (model.ts 229-249) and the matrix
\* transforms (utils.ts 3-10) as slideAndMergeMatrix composes them
\* ------------------------------------------------------------------------
\* a full board whose equal neighbours are all in the same column
verticalPairsPattern ==
    <<<<2, 4, 2, 4>>, <<2, 4, 2, 4>>, <<4, 2, 4, 2>>, <<4, 2, 4, 2>>>>

BoardModels ==
    {[tiles |-> createBoard(p), scoreDeltas |-> << >>,
      gameStatus |-> "playing", bestScore |-> 0] :
        p \in InputPatterns \cup {verticalPairsPattern}}

InitBoard ==
    /\ model \in BoardModels
    /\ lastCall = noCall
    /\ moves = 0
    /\ hook = noHook

SlideOnce == \E dir \in Directions :
    /\ lastCall = noCall
    /\ lastCall' = [op |-> "slideAndMergeTiles", input |-> model, dir |-> dir,
                    moved |-> slideAndMergeTiles(model.tiles, dir)]
    /\ UNCHANGED <<model, moves, hook>>

NoMovesLeftOnce ==
    /\ lastCall = noCall
    /\ lastCall' = [op |-> "noMovesLeft", input |-> model,
                    result |-> noMovesLeft(model.tiles)]
    /\ UNCHANGED <<model, moves, hook>>

\* the transforms slideAndMergeMatrix wraps around slideLeft, applied to the
\* matrix of the board and undone again
TransformOnce ==
    \E m \in {tilesToMatrix(model.tiles)} :
        /\ lastCall = noCall
        /\ lastCall' = [op |-> "transforms", input |-> model, matrix |-> m,
                        reversed |-> reverseRows(m),
                        reversedTwice |-> reverseRows(reverseRows(m)),
                        transposed |-> transpose(m),
                        transposedTwice |-> transpose(transpose(m)),
                        downAndBack |->
                            transpose(reverseRows(reverseRows(transpose(m))))]
        /\ UNCHANGED <<model, moves, hook>>

NextBoard == SlideOnce \/ NoMovesLeftOnce \/ TransformOnce

SpecBoard == InitBoard /\ [][NextBoard]_vars

\* ------------------------------------------------------------------------
\* The hook useTileSlide (App.tsx 83-130): direction inputs, animation frames
\* and renders.  `model` is the state as of the last render, which is what the
\* handlers read; setModel queues an update; a render applies the queued
\* updates in order.  The render that follows an input is part of the input
\* step; the render that follows an animation frame is a step of its own, so
\* an input may or may not come before it.
\* ------------------------------------------------------------------------
\* the move function App.tsx imports from model.ts under this name; model.ts
\* does not define it, so it is taken to be the move of the specification
\* (section 6: move(model, direction, random) -> Model | null)
applyMove(m, direction, random) == move(m, direction, random)

\* randomRef.current: createSeededRandom (unnamed/part_004 87-95) is a
\* generator of numbers of [0,1) whose sequence the seed fixes; it is
\* represented, like the generators of the tests, by a list it cycles through
\* and the number of calls made so far
SeededRandoms == {createMockRandom(values) : values \in MockValueLists}

\* the models the hook starts a game from: the initial one with the saved
\* best score (App.tsx 84-87) and the ones the test buttons set up (105-111)
HookModels ==
    {loadedModel, createTestWinModel(loadedModel),
     createTestGameOverModel(loadedModel)}

\* setModel(prepared) queues a value, setModel((m) => applyMove(...) ?? m) a
\* function of the state it will be applied to
valueUpdate(value) == [kind |-> "value", value |-> value]

moveUpdate(direction) == [kind |-> "applyMove", direction |-> direction]

\* a render: the queued updates applied in order to the state m.  Returns
\* the new state, the generator as the calls of applyMove left it and, per
\* update, whether it was an applyMove that returned a model.
RECURSIVE processUpdates(_, _, _)
processUpdates(updates, m, random) ==
    IF updates = << >>
    THEN [model |-> m, randomRef |-> random, applied |-> << >>]
    ELSE LET u == Head(updates)
         IN  IF u.kind = "value"
             THEN LET rest == processUpdates(Tail(updates), u.value, random)
                  IN  [rest EXCEPT !.applied = <<FALSE>> \o @]
             ELSE LET r == applyMove(m, u.direction, random)
                      rest == processUpdates(Tail(updates),
                                  IF r.result = Null THEN m ELSE r.result,
                                  r.random)
                  IN  [rest EXCEPT !.applied = <<r.result # Null>> \o @]

\* number of updates of a render that were moves returning a model
appliedCount(applied) ==
    Cardinality({k \in 1 .. Len(applied) : applied[k]})

InitHook ==
    /\ model \in HookModels
    /\ lastCall = noCall
    /\ moves = 0
    /\ hook \in {[updates |-> << >>, frames |-> << >>, randomRef |-> random,
                  renderCounter |-> 0] : random \in SeededRandoms}

\* onMove(direction) (App.tsx 117-130), called from a keydown or pointerup
\* listener, and the synchronous render React makes after such an event
OnMove(direction) ==
    \E prepared \in {prepareMove(model)} :
        IF prepared = Null
        THEN /\ lastCall' = [op |-> "onMove", direction |-> direction,
                             snapshot |-> model, randomRef |-> hook.randomRef,
                             frames |-> hook.frames, prepared |-> Null,
                             updates |-> << >>, applied |-> << >>]
             /\ UNCHANGED <<model, moves, hook>>
        ELSE \E updates \in {Append(hook.updates, valueUpdate(prepared))} :
             \E r \in {processUpdates(updates, model, hook.randomRef)} :
                /\ model' = r.model
                /\ hook' = [updates |-> << >>,
                            frames |-> Append(hook.frames, direction),
                            randomRef |-> r.randomRef,
                            renderCounter |-> hook.renderCounter + 1]
                /\ moves' = moves + appliedCount(r.applied)
                /\ lastCall' = [op |-> "onMove", direction |-> direction,
                                snapshot |-> model,
                                randomRef |-> hook.randomRef,
                                frames |-> hook.frames, prepared |-> prepared,
                                updates |-> updates, applied |-> r.applied]

\* an animation frame: the callbacks requested since the last frame run in
\* the order of their requests, each queueing its update (App.tsx 124-129)
AnimationFrame ==
    /\ hook.frames # << >>
    /\ hook' = [hook EXCEPT
                    !.updates = @ \o [k \in 1 .. Len(hook.frames) |->
                                         moveUpdate(hook.frames[k])],
                    !.frames = << >>]
    /\ lastCall' = [op |-> "animationFrame", frames |-> hook.frames]
    /\ UNCHANGED <<model, moves>>

\* the render React schedules for the updates queued in an animation frame
Render ==
    /\ hook.updates # << >>
    /\ \E r \in {processUpdates(hook.updates, model, hook.randomRef)} :
          /\ model' = r.model
          /\ hook' = [hook EXCEPT !.updates = << >>, !.randomRef = r.randomRef]
          /\ moves' = moves + appliedCount(r.applied)
          /\ lastCall' = [op |-> "render", snapshot |-> model,
                          randomRef |-> hook.randomRef,
                          updates |-> hook.updates, applied |-> r.applied]

Input == \E direction \in Directions :
    hook.renderCounter < MaxInputs /\ OnMove(direction)

NextHook == Input \/ AnimationFrame \/ Render

SpecHook == InitHook /\ [][NextHook]_vars

\* ------------------------------------------------------------------------
\* Games played to their end: the player keeps making moves that change the
\* board while there is one, and acknowledges a win (App.tsx 101-103, 117-130)
\* ------------------------------------------------------------------------
\* a nearly full board holding two tiles of half the win threshold: merging
\* them wins, and the board can be blocked two moves later
winNearOverPattern ==
    overlayLine(gameOverPattern, TRUE, 1, <<1024, 1024, 4, 2>>)

\* a continued game one cell short of a full board of distinct values: the
\* tile spawned by its next move blocks the board whatever it is
lastGapPattern ==
    <<<<131072, 65536, 32768, 16384>>, <<1024, 2048, 4096, 8192>>,
      <<512, 256, 128, 64>>, <<0, 8, 16, 32>>>>

\* the states the games are followed from: the start of a game and three
\* boards near its end
EndModels ==
    {INITIAL_MODEL,
     [loadedModel EXCEPT !.tiles = createBoard(nearOverPattern)],
     [loadedModel EXCEPT !.tiles = createBoard(winNearOverPattern)],
     [tiles |-> createBoard(lastGapPattern), scoreDeltas |-> <<2048>>,
      gameStatus |-> "continue", bestScore |-> 2048]}

InitEnd ==
    /\ model \in EndModels
    /\ lastCall = noCall
    /\ moves = 0
    /\ hook = noHook

\* a move that changes the board: some tile moved or merged
ChangingMove == \E dir \in Directions, values \in MockValueLists :
    /\ moves < MaxEndMoves
    /\ model.gameStatus \in {"playing", "continue"}
    /\ ~everyStatic(slideAndMergeTiles(model.tiles, dir))
    /\ Move(dir, values)

\* the condition under which ChangingMove can be taken
movePossible ==
    /\ moves < MaxEndMoves
    /\ model.gameStatus \in {"playing", "continue"}
    /\ \E dir \in Directions : ~everyStatic(slideAndMergeTiles(model.tiles, dir))

\* the player does not stop while a board-changing move is possible: weak
\* fairness of ChangingMove, its enabling condition written out
KeepsMoving == []<>(~movePossible) \/ []<><<ChangingMove>>_vars

\* the player acknowledges the win
AcknowledgeWin == model.gameStatus = "won" /\ ContinueGame

NextEnd == ChangingMove \/ AcknowledgeWin

SpecEnd ==
    InitEnd /\ [][NextEnd]_vars /\ KeepsMoving /\ WF_vars(AcknowledgeWin)

\* ------------------------------------------------------------------------
\* Vocabulary of the properties
\* ------------------------------------------------------------------------
wasMove == lastCall.op = "move"

ActiveStatuses == {"playing", "continue"}

tileIndices(tiles) == 1 .. Len(tiles)

inBounds(tiles) ==
    \A k \in tileIndices(tiles) :
        tiles[k].position.row \in Indices /\ tiles[k].position.col \in Indices

occupied(tiles) == {tiles[k].position : k \in tileIndices(tiles)}

\* no two tiles of the list are on the same cell
distinctPositions(tiles) == Cardinality(occupied(tiles)) = Len(tiles)

wellFormed(tiles) == inBounds(tiles) /\ distinctPositions(tiles)

boardFull(tiles) == Cardinality(occupied(tiles)) = TOTAL_TILES

absDiff(a, b) == IF a >= b THEN a - b ELSE b - a

adjacent(p, q) == absDiff(p.row, q.row) + absDiff(p.col, q.col) = 1

\* no two orthogonally adjacent tiles have the same value
noEqualNeighbours(tiles) ==
    \A i, j \in tileIndices(tiles) :
        adjacent(tiles[i].position, tiles[j].position)
            => tiles[i].value # tiles[j].value

tagged(tiles, type) == {k \in tileIndices(tiles) : tiles[k].state.type = type}

\* the board right after the slide of the last move (a live game)
slid == lastCall.moved

\* the last call was a move on a live game
liveMove == wasMove /\ lastCall.input.gameStatus \in ActiveStatuses

\* ... in which some tile moved or merged
changingMove == liveMove /\ ~everyStatic(slid)

\* ... and which did not win
spawningMove ==
    /\ liveMove
    /\ ~everyStatic(slid)
    /\ lastCall.result # Null
    /\ lastCall.result.gameStatus # "won"

\* the n-th cell (n = 0 nearest) of line i counted from the edge slid toward
cellFromEdge(dir, i, n) ==
    CASE dir = "left" -> [row |-> i, col |-> n]
      [] dir = "right" -> [row |-> i, col |-> gridSize - 1 - n]
      [] dir = "up" -> [row |-> n, col |-> i]
      [] dir = "down" -> [row |-> gridSize - 1 - n, col |-> i]

lineCells(dir, i) == {cellFromEdge(dir, i, n) : n \in Indices}

\* the value of the tile on cell p, 0 for an empty cell
valueAt(tiles, p) ==
    IF \E k \in tileIndices(tiles) : tiles[k].position = p
    THEN tiles[CHOOSE k \in tileIndices(tiles) : tiles[k].position = p].value
    ELSE 0

\* every cell of line i holds a tile of value v
lineOfEqual(tiles, dir, i, v) ==
    \A p \in lineCells(dir, i) : valueAt(tiles, p) = v

\* ------------------------------------------------------------------------
\* Properties
\* ------------------------------------------------------------------------

\* C1: a move on a model whose status is Won or Over returns null, for every
\* direction and random source, and the stored model stays as it was.
C1_RejectedWhenWonOrOver ==
    (wasMove /\ lastCall.input.gameStatus \in {"won", "over"})
        => (lastCall.result = Null /\ model = lastCall.input)

\* a won game whose board could slide was asked to move
C1_Witness ==
    /\ wasMove
    /\ lastCall.input.gameStatus = "won"
    /\ ~everyStatic(slideAndMergeTiles(lastCall.input.tiles, lastCall.dir))
    /\ lastCall.result = Null

\* C2: on a live game whose board is not full, a direction in which the slide
\* leaves every tile Static makes move return null (never an Over model).
C2_BlockedDirectionIsNoOp ==
    (/\ liveMove
     /\ Len(lastCall.input.tiles) < TOTAL_TILES
     /\ everyStatic(slid))
        => lastCall.result = Null

\* a board of N*N - 1 tiles without equal neighbours, moved where nothing slides
C2_Witness ==
    /\ wasMove
    /\ lastCall.input.gameStatus \in ActiveStatuses
    /\ Len(lastCall.input.tiles) = TOTAL_TILES - 1
    /\ noEqualNeighbours(lastCall.input.tiles)
    /\ everyStatic(slid)
    /\ lastCall.result = Null

\* C3: on a live game whose board is full without equal orthogonal neighbours,
\* move in any direction returns the input model with status Over: N*N tiles,
\* and tiles, scoreDeltas and bestScore as in the input.
C3_FullBlockedBoardIsOver ==
    (/\ wasMove
     /\ lastCall.input.gameStatus \in ActiveStatuses
     /\ boardFull(lastCall.input.tiles)
     /\ noEqualNeighbours(lastCall.input.tiles))
        => /\ lastCall.result # Null
           /\ lastCall.result.gameStatus = "over"
           /\ Len(lastCall.result.tiles) = TOTAL_TILES
           /\ lastCall.result.tiles = lastCall.input.tiles
           /\ lastCall.result.scoreDeltas = lastCall.input.scoreDeltas
           /\ lastCall.result.bestScore = lastCall.input.bestScore

C3_Witness ==
    /\ wasMove
    /\ lastCall.input.gameStatus \in ActiveStatuses
    /\ boardFull(lastCall.input.tiles)
    /\ noEqualNeighbours(lastCall.input.tiles)
    /\ lastCall.input.scoreDeltas # << >>
    /\ model.gameStatus = "over"

\* C4: a move with status Playing in which some tile moves or merges and whose
\* post-slide board holds a tile >= the win threshold returns status Won with
\* exactly the post-slide tile list, no tile tagged Spawned.
C4_WinSuppressesSpawn ==
    (liveMove /\ lastCall.input.gameStatus = "playing")
        => \A s \in {slid} :
              (/\ ~everyStatic(s)
               /\ \E k \in tileIndices(s) : s[k].value >= winValue)
                 => /\ lastCall.result # Null
                    /\ lastCall.result.gameStatus = "won"
                    /\ lastCall.result.tiles = s
                    /\ tagged(lastCall.result.tiles, "spawned") = {}

\* two tiles of half the threshold merged into the winning tile
C4_Witness ==
    /\ liveMove
    /\ model.gameStatus = "won"
    /\ \A k \in tileIndices(lastCall.input.tiles) :
          lastCall.input.tiles[k].value < winValue
    /\ \E k \in tagged(model.tiles, "merged") : model.tiles[k].value = winValue

\* C5: a line of four equal tiles of value v slid toward an edge yields exactly
\* two Merged tiles in that line, of value 2v, in the two cells nearest the
\* edge, and no tile of value 4v.
C5_MergeDoesNotChain ==
    liveMove
        => \A i \in Indices :
            \A v \in {valueAt(lastCall.input.tiles, cellFromEdge(lastCall.dir, i, 0))} :
              (v # 0 /\ lineOfEqual(lastCall.input.tiles, lastCall.dir, i, v))
                => /\ lastCall.result # Null
                   /\ LET tiles == lastCall.result.tiles
                          inLine == {k \in tileIndices(tiles) :
                                       tiles[k].position \in lineCells(lastCall.dir, i)}
                          merged == inLine \cap tagged(tiles, "merged")
                      IN  /\ Cardinality(merged) = 2
                          /\ {tiles[k].position : k \in merged}
                                = {cellFromEdge(lastCall.dir, i, 0),
                                   cellFromEdge(lastCall.dir, i, 1)}
                          /\ \A k \in merged : tiles[k].value = 2 * v
                          /\ \A k \in inLine : tiles[k].value # 4 * v

\* the row [2,2,2,2] slid left
C5_Witness ==
    /\ liveMove
    /\ lastCall.dir = "left"
    /\ lineOfEqual(lastCall.input.tiles, "left", 0, 2)
    /\ lastCall.result # Null
    /\ \E k \in tagged(model.tiles, "merged") :
          model.tiles[k].position = [row |-> 0, col |-> 1] /\ model.tiles[k].value = 4

\* C6: every tile tagged Merged in a non-null move result has value
\* 2 * state.value, state.value being the value of the two source tiles.
C6_MergeValueLaw ==
    (wasMove /\ lastCall.result # Null)
        => \A k \in tagged(lastCall.result.tiles, "merged") :
              LET t == lastCall.result.tiles[k]
                  in == lastCall.input.tiles
              IN  /\ t.value = 2 * t.state.value
                  /\ t.state.from1 # t.state.from2
                  /\ valueAt(in, t.state.from1) = t.state.value
                  /\ valueAt(in, t.state.from2) = t.state.value

\* a result with two merges of different values
C6_Witness ==
    /\ wasMove
    /\ lastCall.result # Null
    /\ \E j, k \in tagged(model.tiles, "merged") :
          model.tiles[j].value # model.tiles[k].value

\* C7: for input tiles with in-bounds pairwise-distinct positions, every tile
\* of a non-null move result has 0 <= row < N and 0 <= col < N.
C7_NoOutOfBounds ==
    (wasMove /\ wellFormed(lastCall.input.tiles) /\ lastCall.result # Null)
        => inBounds(lastCall.result.tiles)

\* a result holding a moved, a merged and a spawned tile, one of them in the
\* last row and one in the last column
C7_Witness ==
    /\ wasMove
    /\ lastCall.result # Null
    /\ tagged(model.tiles, "moved") # {}
    /\ tagged(model.tiles, "merged") # {}
    /\ tagged(model.tiles, "spawned") # {}
    /\ \E k \in tileIndices(model.tiles) : model.tiles[k].position.row = gridSize - 1
    /\ \E k \in tileIndices(model.tiles) : model.tiles[k].position.col = gridSize - 1

\* C8: after any sequence of move, prepareMove and continueGameModel calls from
\* INITIAL_MODEL no two tiles of the model occupy the same position.
C8_OneTilePerCell == distinctPositions(model.tiles)

\* MaxMoves moves were made and the board holds merged and spawned tiles
C8_Witness ==
    /\ moves = MaxMoves
    /\ tagged(model.tiles, "merged") # {}
    /\ Cardinality(tagged(model.tiles, "spawned")) = 2

\* C9: after a move that changes the board and does not win, the status is
\* Over exactly when the resulting board is full without equal orthogonal
\* neighbours, and is the input status otherwise.
C9_OverIffFullAndBlocked ==
    spawningMove
        => LET r == lastCall.result
           IN  /\ r.gameStatus = "over"
                    <=> (boardFull(r.tiles) /\ noEqualNeighbours(r.tiles))
               /\ r.gameStatus # "over" => r.gameStatus = lastCall.input.gameStatus
               /\ ~boardFull(r.tiles) => r.gameStatus # "over"

\* a move slid a tile, the spawn filled the last cell and the game is over
C9_Witness ==
    /\ spawningMove
    /\ tagged(model.tiles, "spawned") # {}
    /\ model.gameStatus = "over"

\* C10: after a move that changes the board and does not win, the result has
\* min(tilesToSpawnPerMove, number of cells empty after the slide) tiles tagged
\* Spawned, each on a cell empty after the slide, no two on the same cell.
C10_SpawnCount ==
    spawningMove
        => \A occ \in {occupied(slid)} :
           LET tiles == lastCall.result.tiles
               spawned == tagged(tiles, "spawned")
               emptyCount == TOTAL_TILES - Cardinality(occ)
           IN  /\ Cardinality(spawned)
                    = (IF emptyCount >= tilesToSpawnPerMove
                       THEN tilesToSpawnPerMove ELSE emptyCount)
               /\ \A k \in spawned : tiles[k].position \notin occ
               /\ \A j, k \in spawned :
                     j # k => tiles[j].position # tiles[k].position

\* only one cell was empty after the slide and one tile was spawned
C10_Witness ==
    /\ spawningMove
    /\ Cardinality(tagged(model.tiles, "spawned")) = 1
    /\ Cardinality(occupied(slid)) = TOTAL_TILES - 1

\* s is a prefix of t
isPrefix(s, t) == Len(s) <= Len(t) /\ SubSeq(t, 1, Len(s)) = s

\* twice the pre-merge value, summed over the tiles tagged Merged from index k on
RECURSIVE mergedTotal(_, _)
mergedTotal(tiles, k) ==
    IF k > Len(tiles) THEN 0
    ELSE (IF tiles[k].state.type = "merged" THEN 2 * tiles[k].state.value ELSE 0)
             + mergedTotal(tiles, k + 1)

\* C11: a move in which something moved or merged (the winning move included)
\* appends exactly one entry to scoreDeltas: the sum over the tiles tagged
\* Merged by this move of twice the pre-merge value, 0 when nothing merged.
C11_ScoreDeltaIsMergedSum ==
    changingMove
        => /\ lastCall.result # Null
           /\ \A total \in {mergedTotal(lastCall.result.tiles, 1)} :
                /\ lastCall.result.scoreDeltas
                      = Append(lastCall.input.scoreDeltas, total)
                /\ total = mergedTotal(slid, 1)
                /\ (tagged(lastCall.result.tiles, "merged") = {} => total = 0)

\* the line [2,2,4,4]: two merges, 4 + 8 appended
C11_Witness ==
    /\ changingMove
    /\ lastCall.result # Null
    /\ Cardinality(tagged(model.tiles, "merged")) = 2
    /\ model.scoreDeltas = Append(lastCall.input.scoreDeltas, 12)

\* C12: when the input scoreDeltas are non-negative, every entry of scoreDeltas
\* in a model returned by move is >= 0.
C12_ScoreDeltasNonNegative ==
    (/\ wasMove
     /\ lastCall.result # Null
     /\ \A k \in 1 .. Len(lastCall.input.scoreDeltas) :
           lastCall.input.scoreDeltas[k] >= 0)
        => \A k \in 1 .. Len(lastCall.result.scoreDeltas) :
              lastCall.result.scoreDeltas[k] >= 0

\* tiles slid without merging: the smallest entry, 0, was appended to a
\* non-empty history
C12_Witness ==
    /\ wasMove
    /\ lastCall.result # Null
    /\ lastCall.input.scoreDeltas # << >>
    /\ tagged(model.tiles, "moved") # {}
    /\ model.scoreDeltas = Append(lastCall.input.scoreDeltas, 0)

\* the call that led to the next state appended nothing: prepareMove,
\* continueGameModel, a rejected or no-op move, the status-only Over transition
appendsNothing(call) ==
    \/ call.op \in {"prepareMove", "continueGameModel"}
    \/ /\ call.op = "move"
       /\ (call.result = Null \/ everyStatic(call.moved))

\* C13: every move, prepareMove and continueGameModel call leaves the existing
\* scoreDeltas as a prefix of the new ones, and prepareMove, continueGameModel,
\* a rejected move, a no-op move and the status-only Over transition append
\* nothing.
C13_ScoreDeltasAppendOnly ==
    [][/\ isPrefix(model.scoreDeltas, model'.scoreDeltas)
       /\ Len(model'.scoreDeltas) <= Len(model.scoreDeltas) + 1
       /\ appendsNothing(lastCall') => model'.scoreDeltas = model.scoreDeltas]_vars

\* a won game with a score history was continued
C13_Witness ==
    /\ lastCall.op = "continueGameModel"
    /\ lastCall.input.gameStatus = "won"
    /\ model.gameStatus = "continue"
    /\ model.scoreDeltas # << >>
    /\ model.scoreDeltas = lastCall.input.scoreDeltas

\* the call changed the board: a move that returned a model after a slide in
\* which some tile moved or merged
changedBoard(call) ==
    /\ call.op = "move"
    /\ call.result # Null
    /\ ~everyStatic(call.moved)

\* C14: no move, prepareMove or continueGameModel call decreases bestScore, and
\* after a move that changed the board bestScore is the larger of the previous
\* bestScore and the sum of the new scoreDeltas.
C14_BestScoreMonotone ==
    [][/\ model'.bestScore >= model.bestScore
       /\ changedBoard(lastCall')
            => \A total \in {sumSeq(model'.scoreDeltas)} :
                  /\ model'.bestScore >= total
                  /\ model'.bestScore \in {model.bestScore, total}]_vars

\* one move left the saved best score standing, the next one beat it
C14_Witness ==
    /\ changedBoard(lastCall)
    /\ moves = MaxPlayMoves
    /\ lastCall.input.bestScore = 36
    /\ lastCall.input.scoreDeltas # << >>
    /\ model.bestScore > 36
    /\ model.bestScore = sumSeq(model.scoreDeltas)

StatusSteps ==
    {<<"playing", "won">>, <<"playing", "over">>,
     <<"won", "continue">>, <<"continue", "over">>}

\* C15: gameStatus changes only along Playing->Won, Playing->Over,
\* Won->Continue and Continue->Over; from Continue no call leads to Won, and no
\* call leads back to Playing.
C15_StatusTransitions ==
    [][/\ model'.gameStatus # model.gameStatus
            => <<model.gameStatus, model'.gameStatus>> \in StatusSteps
       /\ model.gameStatus = "continue" => model'.gameStatus # "won"
       /\ model.gameStatus # "playing" => model'.gameStatus # "playing"]_vars

\* a continued game merged two tiles into one >= the win threshold and stayed
\* in Continue
C15_Witness ==
    /\ wasMove
    /\ lastCall.input.gameStatus = "continue"
    /\ lastCall.result # Null
    /\ \E k \in tagged(model.tiles, "merged") : model.tiles[k].value >= winValue
    /\ model.gameStatus = "continue"

\* C16: once the model has status Over, move and prepareMove return null,
\* continueGameModel returns the model itself, and the stored model never
\* differs from it again.
C16_OverIsTerminal ==
    [][model.gameStatus = "over"
          => /\ model' = model
             /\ lastCall'.op \in {"move", "prepareMove"} => lastCall'.result = Null
             /\ lastCall'.op = "continueGameModel" => lastCall'.result = model]_vars

\* a game ended by a spawn; prepareMove was then called on it and rejected
C16_Witness ==
    /\ lastCall.op = "prepareMove"
    /\ lastCall.input.gameStatus = "over"
    /\ tagged(lastCall.input.tiles, "spawned") # {}
    /\ lastCall.result = Null
    /\ model = lastCall.input

\* C17: continueGameModel on a Won model returns status Continue with tiles,
\* scoreDeltas and bestScore unchanged, and on any other status returns the
\* model unchanged; a move on a Won model leaves it Won.
C17_ContinueOnlyFromWon ==
    /\ lastCall.op = "continueGameModel"
          => IF lastCall.input.gameStatus = "won"
             THEN /\ lastCall.result.gameStatus = "continue"
                  /\ lastCall.result.tiles = lastCall.input.tiles
                  /\ lastCall.result.scoreDeltas = lastCall.input.scoreDeltas
                  /\ lastCall.result.bestScore = lastCall.input.bestScore
             ELSE lastCall.result = lastCall.input
    /\ (wasMove /\ lastCall.input.gameStatus = "won")
          => model.gameStatus = "won"

\* a Won model holding a winning tile was acknowledged
C17_Witness ==
    /\ lastCall.op = "continueGameModel"
    /\ lastCall.input.gameStatus = "won"
    /\ \E k \in tileIndices(lastCall.input.tiles) :
          lastCall.input.tiles[k].value >= winValue
    /\ model.gameStatus = "continue"
    /\ model.tiles = lastCall.input.tiles

\* C18: prepareMove returns null on Won and Over; otherwise the result has
\* every tile Static, with each tile's position and value, the tile order,
\* scoreDeltas, gameStatus and bestScore as in the input.
C18_PrepareMoveFrame ==
    lastCall.op = "prepareMove"
        => IF lastCall.input.gameStatus \in {"won", "over"}
           THEN lastCall.result = Null
           ELSE /\ lastCall.result # Null
                /\ Len(lastCall.result.tiles) = Len(lastCall.input.tiles)
                /\ \A k \in tileIndices(lastCall.input.tiles) :
                      /\ lastCall.result.tiles[k].state = [type |-> "static"]
                      /\ lastCall.result.tiles[k].position
                            = lastCall.input.tiles[k].position
                      /\ lastCall.result.tiles[k].value
                            = lastCall.input.tiles[k].value
                /\ lastCall.result.scoreDeltas = lastCall.input.scoreDeltas
                /\ lastCall.result.gameStatus = lastCall.input.gameStatus
                /\ lastCall.result.bestScore = lastCall.input.bestScore

\* a board holding moved, merged and spawned tiles was normalised
C18_Witness ==
    /\ lastCall.op = "prepareMove"
    /\ lastCall.result # Null
    /\ tagged(lastCall.input.tiles, "moved") # {}
    /\ tagged(lastCall.input.tiles, "merged") # {}
    /\ tagged(lastCall.input.tiles, "spawned") # {}
    /\ everyStatic(model.tiles)

\* C20: in the matrix the slide returns (each tile still carrying the position
\* it had before the move), a tile written without merging is tagged Static
\* exactly when the cell it is written to is the cell it came from, and Moved
\* otherwise.
C20_StaticIffAtOrigin ==
    liveMove
        => \A out \in {slideAndMergeMatrix(tilesToMatrix(lastCall.input.tiles),
                                           lastCall.dir)} :
              \A r, c \in 1 .. gridSize :
                 (out[r][c] # Null /\ out[r][c].state.type \in {"static", "moved"})
                    => (out[r][c].state.type = "static"
                          <=> out[r][c].position = [row |-> r - 1, col |-> c - 1])

\* distance of cell p from the edge slid toward
edgeDistance(dir, p) ==
    CASE dir = "left" -> p.col
      [] dir = "right" -> gridSize - 1 - p.col
      [] dir = "up" -> p.row
      [] dir = "down" -> gridSize - 1 - p.row

\* p and q lie in the same row (left/right) or the same column (up/down)
sameLine(dir, p, q) ==
    IF dir \in {"left", "right"} THEN p.row = q.row ELSE p.col = q.col

\* no tile lies on a cell of the line strictly between p and q
noTileBetween(tiles, dir, p, q) ==
    \A k \in tileIndices(tiles) :
        sameLine(dir, tiles[k].position, p)
            => ~(/\ edgeDistance(dir, tiles[k].position) > edgeDistance(dir, p)
                 /\ edgeDistance(dir, tiles[k].position) < edgeDistance(dir, q))

\* C21: for every Merged tile of a slide result, from1 and from2 are distinct
\* pre-move positions of two tiles of value state.value in the same row
\* (left/right) or column (up/down) with no tile between them, from1 the one
\* nearer the edge slid toward, and the Merged tile lies at from1 or between
\* from1 and that edge.
C21_MergedSources ==
    liveMove
        => \A s \in {slid} :
            \A k \in tagged(s, "merged") :
              LET t == s[k]
                  in == lastCall.input.tiles
                  dir == lastCall.dir
              IN  /\ t.state.from1 # t.state.from2
                  /\ valueAt(in, t.state.from1) = t.state.value
                  /\ valueAt(in, t.state.from2) = t.state.value
                  /\ sameLine(dir, t.state.from1, t.state.from2)
                  /\ edgeDistance(dir, t.state.from1) < edgeDistance(dir, t.state.from2)
                  /\ noTileBetween(in, dir, t.state.from1, t.state.from2)
                  /\ sameLine(dir, t.position, t.state.from1)
                  /\ edgeDistance(dir, t.position) <= edgeDistance(dir, t.state.from1)

\* the row [2,null,null,2] slid left: one Merged 4 at column 0 from columns 0 and 3
C21_Witness ==
    /\ liveMove
    /\ lastCall.dir = "left"
    /\ Len(lastCall.input.tiles) = 2
    /\ Len(slid) = 1
    /\ slid[1].value = 4
    /\ slid[1].position = [row |-> 0, col |-> 0]
    /\ slid[1].state = [type |-> "merged", from1 |-> [row |-> 0, col |-> 0],
                        from2 |-> [row |-> 0, col |-> 3], value |-> 2]

cells(tiles) ==
    {[position |-> tiles[k].position, value |-> tiles[k].value] :
        k \in tileIndices(tiles)}

\* C29: the slide result has every tile tagged Static exactly when the board is
\* unchanged (same position/value pairs, no merge); move returns null or the
\* status-only Over model only then, and otherwise returns a model that starts
\* with the slid tiles.
C29_AllStaticIffUnchanged ==
    (liveMove /\ wellFormed(lastCall.input.tiles))
        => \A s \in {slid} :
            \A unchanged \in {cells(s) = cells(lastCall.input.tiles)
                                /\ tagged(s, "merged") = {}} :
              /\ everyStatic(s) <=> unchanged
              /\ unchanged
                    => (lastCall.result = Null
                          \/ lastCall.result
                                = [lastCall.input EXCEPT !.gameStatus = "over"])
              /\ ~unchanged
                    => /\ lastCall.result # Null
                       /\ isPrefix(s, lastCall.result.tiles)
                       /\ Len(lastCall.result.scoreDeltas)
                             = Len(lastCall.input.scoreDeltas) + 1

\* a slide without any Moved tile (one tile kept its cell, two merged next to
\* it) was kept by move
C29_Witness ==
    /\ liveMove
    /\ lastCall.result # Null
    /\ tagged(slid, "merged") # {}
    /\ tagged(slid, "moved") = {}
    /\ tagged(slid, "static") # {}
    /\ isPrefix(slid, model.tiles)

\* number of tiles the last move appended to the slid board
spawnedCount ==
    IF spawningMove THEN Len(lastCall.result.tiles) - Len(slid) ELSE 0

\* C23: a call to move invokes the random source exactly twice per tile it
\* spawns: not at all when the move is rejected, is a no-op, makes the
\* status-only Over transition or wins, and twice per spawned tile otherwise,
\* the number of spawned tiles being limited by the cells left empty.
C23_RandomCalls ==
    wasMove
        => /\ lastCall.calls = 2 * spawnedCount
           /\ lastCall.result = Null => lastCall.calls = 0
           /\ (lastCall.result # Null /\ lastCall.result.gameStatus = "won")
                 => lastCall.calls = 0
           /\ (liveMove /\ everyStatic(slid)) => lastCall.calls = 0
           /\ spawningMove
                 => \A emptyCount \in {TOTAL_TILES - Len(slid)} :
                       lastCall.calls
                          = 2 * (IF emptyCount >= tilesToSpawnPerMove
                                 THEN tilesToSpawnPerMove ELSE emptyCount)

\* one cell was empty after the slide: one tile spawned, two calls, no third
C23_Witness ==
    /\ spawningMove
    /\ Len(slid) = TOTAL_TILES - 1
    /\ Len(model.tiles) = TOTAL_TILES
    /\ lastCall.calls = 2

\* the cells no tile of the list occupies, in row-major order
emptyCells(tiles) ==
    SelectSeq(ALL_POSITIONS, LAMBDA p : p \notin occupied(tiles))

\* floor(r * k) for the fraction r
floorOf(r, k) ==
    CHOOSE q \in 0 .. k : q * r.den <= r.num * k /\ r.num * k < (q + 1) * r.den

\* C24: the j-th tile spawned by a move lies on the cell at index
\* floor(r1 * k) of the row-major list of the k cells still empty (the cells
\* of earlier spawns removed), r1 being draw 2j-1, and has value 2 when draw 2j
\* is < 0.9 and value 4 otherwise.
C24_SpawnPlacement ==
    spawningMove
        => \A s \in {slid} :
            \A j \in 1 .. (Len(lastCall.result.tiles) - Len(s)) :
              LET tiles == lastCall.result.tiles
                  t == tiles[Len(s) + j]
                  empty == emptyCells(SubSeq(tiles, 1, Len(s) + j - 1))
                  r1 == lastCall.draws[2 * j - 1]
                  r2 == lastCall.draws[2 * j]
              IN  /\ t.state = [type |-> "spawned"]
                  /\ t.position = empty[floorOf(r1, Len(empty)) + 1]
                  /\ t.value = (IF 10 * r2.num < 9 * r2.den THEN 2 ELSE 4)

\* two tiles spawned with the draws 1/2, 19/20, 1/2, 19/20: the first one in
\* the middle of the empty cells, not on the first, with value 4
C24_Witness ==
    /\ spawningMove
    /\ Len(model.tiles) = Len(slid) + 2
    /\ lastCall.draws = <<[num |-> 1, den |-> 2], [num |-> 19, den |-> 20],
                          [num |-> 1, den |-> 2], [num |-> 19, den |-> 20]>>
    /\ model.tiles[Len(slid) + 1].value = 4
    /\ model.tiles[Len(slid) + 1].position
          # emptyCells(slid)[1]

\* the occupied cells of line i in the order met from the edge slid toward
lineTiles(tiles, dir, i) ==
    SelectSeq([n \in 1 .. gridSize |-> cellFromEdge(dir, i, n - 1)],
              LAMBDA p : valueAt(tiles, p) # 0)

\* the reference merge of one line: equal neighbouring pairs combine, starting
\* from the edge; each entry keeps the cells its tiles came from
RECURSIVE referenceMerge(_, _)
referenceMerge(tiles, ps) ==
    IF Len(ps) = 0 THEN << >>
    ELSE IF Len(ps) >= 2 /\ valueAt(tiles, ps[1]) = valueAt(tiles, ps[2])
    THEN <<[value |-> 2 * valueAt(tiles, ps[1]), origins |-> <<ps[1], ps[2]>>]>>
            \o referenceMerge(tiles, SubSeq(ps, 3, Len(ps)))
    ELSE <<[value |-> valueAt(tiles, ps[1]), origins |-> <<ps[1]>>]>>
            \o referenceMerge(tiles, Tail(ps))

\* the direct reference slide: every line compacted toward the named edge
referenceSlide(tiles, dir) ==
    UNION {LET e == referenceMerge(tiles, lineTiles(tiles, dir, i))
           IN  {[position |-> cellFromEdge(dir, i, k - 1), value |-> e[k].value,
                 origins |-> e[k].origins] : k \in 1 .. Len(e)} :
           i \in Indices}

\* C26: for each direction the transform-based slide yields the positions and
\* values of the direct reference slide, and the from-positions of its Moved
\* and Merged tiles are the reference's origins in board coordinates.
C26_SlideMatchesReference ==
    (lastCall.op = "slideAndMergeTiles" /\ wellFormed(lastCall.input.tiles))
        => \A ref \in {referenceSlide(lastCall.input.tiles, lastCall.dir)} :
              /\ Cardinality(ref) = Len(lastCall.moved)
              /\ \A k \in tileIndices(lastCall.moved) :
                    LET t == lastCall.moved[k]
                    IN  \E e \in ref :
                          /\ e.position = t.position
                          /\ e.value = t.value
                          /\ t.state.type = "merged"
                                => e.origins = <<t.state.from1, t.state.from2>>
                          /\ t.state.type = "moved"
                                => e.origins = <<t.state.from>>
                          /\ t.state.type = "static" => Len(e.origins) = 1

\* a slide down that merged two tiles and moved a third
C26_Witness ==
    /\ lastCall.op = "slideAndMergeTiles"
    /\ lastCall.dir = "down"
    /\ tagged(lastCall.moved, "merged") # {}
    /\ \E k \in tagged(lastCall.moved, "moved") :
          lastCall.moved[k].position.row < gridSize - 1

\* sliding the board in direction dir leaves every tile in place, without merge
slideChangesNothing(tiles, dir) ==
    \A s \in {slideAndMergeTiles(tiles, dir)} :
        cells(s) = cells(tiles) /\ tagged(s, "merged") = {}

\* C27: on a well-formed board with at least one tile noMovesLeft is true
\* exactly when sliding in each of the four directions leaves every tile in
\* place with no merge, and it is false whenever the board has an empty cell
\* or two orthogonally adjacent tiles of equal value.
C27_NoMovesLeftIffBlocked ==
    (/\ lastCall.op = "noMovesLeft"
     /\ wellFormed(lastCall.input.tiles)
     /\ Len(lastCall.input.tiles) >= 1)
        => /\ lastCall.result
                <=> \A dir \in Directions :
                        slideChangesNothing(lastCall.input.tiles, dir)
           /\ (~boardFull(lastCall.input.tiles)
                 \/ ~noEqualNeighbours(lastCall.input.tiles))
                    => ~lastCall.result

\* a full board that slides neither left nor right but merges up and down
C27_Witness ==
    /\ lastCall.op = "noMovesLeft"
    /\ boardFull(lastCall.input.tiles)
    /\ slideChangesNothing(lastCall.input.tiles, "left")
    /\ slideChangesNothing(lastCall.input.tiles, "right")
    /\ ~slideChangesNothing(lastCall.input.tiles, "up")
    /\ lastCall.result = FALSE

\* C28: on the N x N matrix of a board, transpose applied twice and
\* reverseRows applied twice return the matrix, and so does the pre-transform
\* of "down" followed by its post-transform.
C28_TransformsAreInvolutions ==
    lastCall.op = "transforms"
        => /\ lastCall.transposedTwice = lastCall.matrix
           /\ lastCall.reversedTwice = lastCall.matrix
           /\ lastCall.downAndBack = lastCall.matrix

\* a matrix that neither transform leaves as it is
C28_Witness ==
    /\ lastCall.op = "transforms"
    /\ lastCall.transposed # lastCall.matrix
    /\ lastCall.reversed # lastCall.matrix
    /\ lastCall.transposedTwice = lastCall.matrix
    /\ Len(lastCall.input.tiles) > gridSize

RECURSIVE isPowerOfTwo(_)
isPowerOfTwo(v) ==
    v >= 2 /\ (v = 2 \/ (v % 2 = 0 /\ isPowerOfTwo(v \div 2)))

\* C22: after any sequence of moves (and prepareMove / continueGameModel
\* calls) from INITIAL_MODEL every tile's value is a positive power of two.
C22_ValuesArePowersOfTwo ==
    \A k \in tileIndices(model.tiles) : isPowerOfTwo(model.tiles[k].value)

\* three merges in a row built a 16 next to a spawned tile
C22_Witness ==
    /\ moves = MaxMoves
    /\ \E k \in tagged(model.tiles, "merged") : model.tiles[k].value = 16
    /\ tagged(model.tiles, "spawned") # {}

\* some direction changes the board
canChange(tiles) ==
    \E dir \in Directions : ~slideChangesNothing(tiles, dir)

\* the dead board the test helper sets up, before any move was made on it
deadStart ==
    /\ moves = 0
    /\ model.tiles = createTestGameOverModel(loadedModel).tiles

\* C30: a model with status Playing or Continue reached by move, prepareMove
\* and continueGameModel always has a direction whose move changes the board,
\* and the branch of move that sets Over without sliding is taken only on the
\* dead board set up by the test helper, never on a board reached by play.
C30_NeverStuck ==
    /\ (model.gameStatus \in ActiveStatuses /\ ~deadStart)
          => canChange(model.tiles)
    /\ (wasMove /\ lastCall.result # Null /\ everyStatic(lastCall.moved))
          => /\ moves = 1
             /\ lastCall.input.tiles = createTestGameOverModel(loadedModel).tiles

\* play filled the board and the game goes on: a merge is still possible
C30_Witness ==
    /\ moves > 0
    /\ model.gameStatus \in ActiveStatuses
    /\ boardFull(model.tiles)
    /\ tagged(model.tiles, "spawned") # {}
    /\ canChange(model.tiles)

\* the two terminal-side statuses imply the board that justifies them
statusJustified(m) ==
    /\ m.gameStatus = "over"
          => (boardFull(m.tiles) /\ noEqualNeighbours(m.tiles))
    /\ m.gameStatus = "won"
          => /\ Len(m.tiles) < TOTAL_TILES
             /\ \E k \in tileIndices(m.tiles) : m.tiles[k].value >= winValue

\* C31: status Over only on a full board without equal orthogonal neighbours,
\* status Won only on a board with an empty cell and a tile >= the win
\* threshold.  It holds of INITIAL_MODEL, and every call of move, prepareMove
\* or continueGameModel on a model of which it holds stores a model of which
\* it holds, so it holds in every state reachable from INITIAL_MODEL.
C31_StatusJustifiedByBoard ==
    /\ statusJustified(INITIAL_MODEL)
    /\ (lastCall # noCall /\ statusJustified(lastCall.input))
          => statusJustified(model)

\* a move on a live game spawned into the last empty cell and the game is over
C31_Witness ==
    /\ liveMove
    /\ Len(slid) = TOTAL_TILES - 1
    /\ tagged(model.tiles, "spawned") # {}
    /\ model.gameStatus = "over"

\* C32: a model with status Playing holds no tile >= the win threshold.  It
\* holds of INITIAL_MODEL, and every call on a model of which it holds stores
\* a model of which it holds: the move that creates the first such tile
\* returns status Won.
noWinnerWhilePlaying(m) ==
    m.gameStatus = "playing"
        => \A k \in tileIndices(m.tiles) : m.tiles[k].value < winValue

C32_PlayingHasNoWinningTile ==
    /\ noWinnerWhilePlaying(INITIAL_MODEL)
    /\ (lastCall # noCall /\ noWinnerWhilePlaying(lastCall.input))
          => noWinnerWhilePlaying(model)

\* two tiles of half the threshold merged on a Playing game, which is now Won
C32_Witness ==
    /\ wasMove
    /\ lastCall.input.gameStatus = "playing"
    /\ noWinnerWhilePlaying(lastCall.input)
    /\ \E k \in tagged(model.tiles, "merged") : model.tiles[k].value >= winValue
    /\ model.gameStatus = "won"

\* the sum of the values of the tiles of a list
valueSum(tiles) == sumSeq([k \in tileIndices(tiles) |-> tiles[k].value])

\* C33: the slide/merge step keeps the sum of the tile values, and the board
\* after the slide has as many tiles as before less one per tile tagged
\* Merged.
C33_SlidePreservesSum ==
    lastCall.op = "slideAndMergeTiles"
        => \A s \in {lastCall.moved} :
              /\ valueSum(s) = valueSum(lastCall.input.tiles)
              /\ Len(s) = Len(lastCall.input.tiles)
                            - Cardinality(tagged(s, "merged"))

\* a slide with two merges and with tiles that only moved
C33_Witness ==
    /\ lastCall.op = "slideAndMergeTiles"
    /\ Cardinality(tagged(lastCall.moved, "merged")) >= 2
    /\ tagged(lastCall.moved, "moved") # {}
    /\ Len(lastCall.moved) = Len(lastCall.input.tiles) - 2

\* C34: a move in which some tile moved or merged leaves at least one cell
\* empty after the slide; when it does not win it spawns at least one tile,
\* and its result holds a strictly larger sum of tile values than its input.
C34_ChangingMoveSpawns ==
    /\ changingMove => Len(slid) < TOTAL_TILES
    /\ spawningMove
          => /\ tagged(lastCall.result.tiles, "spawned") # {}
             /\ Len(lastCall.result.tiles) > Len(slid)
             /\ valueSum(lastCall.result.tiles) > valueSum(lastCall.input.tiles)

\* on a board with one empty cell a tile moved without a merge: one tile
\* spawned into the only cell left
C34_Witness ==
    /\ spawningMove
    /\ Len(lastCall.input.tiles) = TOTAL_TILES - 1
    /\ tagged(slid, "merged") = {}
    /\ Len(model.tiles) = TOTAL_TILES
    /\ valueSum(model.tiles) = valueSum(lastCall.input.tiles) + 2

\* positions and values of a tile list, the state tags left out
untagged(tiles) ==
    [k \in tileIndices(tiles) |->
        [position |-> tiles[k].position, value |-> tiles[k].value]]

\* the model m with every tile given a stale Merged tag of its own value
allTaggedMerged(m) ==
    [m EXCEPT !.tiles = [k \in tileIndices(m.tiles) |->
        [m.tiles[k] EXCEPT !.state =
            [type |-> "merged", from1 |-> m.tiles[k].position,
             from2 |-> m.tiles[k].position, value |-> m.tiles[k].value]]]]

\* the list of numbers the generator of the last move cycled through (any list
\* when the move drew nothing)
lastValues ==
    IF lastCall.calls >= 2
    THEN <<lastCall.draws[1], lastCall.draws[2]>>
    ELSE CHOOSE v \in MockValueLists : TRUE

\* two results of move agree but for the tags of tiles no slide touched
sameOutcome(r1, r2) ==
    /\ (r1.result = Null) <=> (r2.result = Null)
    /\ r1.random = r2.random
    /\ r1.result # Null
          => /\ untagged(r1.result.tiles) = untagged(r2.result.tiles)
             /\ r1.result.scoreDeltas = r2.result.scoreDeltas
             /\ r1.result.gameStatus = r2.result.gameStatus
             /\ r1.result.bestScore = r2.result.bestScore
             /\ ~everyStatic(r1.moved) => r1.result.tiles = r2.result.tiles

\* C35: the outcome of move on a live game does not depend on the state tags
\* its input tiles carry: the move made on the model as play left it, on the
\* model normalised by prepareMove and on the model with every tile tagged
\* Merged return both null or the same positions, values, scoreDeltas,
\* gameStatus and bestScore after the same random draws, and the same tags
\* too when a tile moved or merged.
C35_TagsDoNotMatter ==
    liveMove
        => \A m \in {lastCall.input}, vs \in {lastValues} :
              \A r \in {[result |-> lastCall.result, moved |-> lastCall.moved,
                         random |-> [values |-> vs, index |-> lastCall.calls]]} :
                 /\ sameOutcome(r, move(prepareMove(m), lastCall.dir,
                                        createMockRandom(vs)))
                 /\ sameOutcome(r, move(allTaggedMerged(m), lastCall.dir,
                                        createMockRandom(vs)))

\* the second move of a game, made while the tiles still carry the Merged,
\* Moved and Spawned tags of the first: the merge of this move alone is scored
C35_Witness ==
    /\ liveMove
    /\ tagged(lastCall.input.tiles, "merged") # {}
    /\ tagged(lastCall.input.tiles, "moved") # {}
    /\ tagged(lastCall.input.tiles, "spawned") # {}
    /\ lastCall.result # Null
    /\ tagged(slid, "merged") # {}
    /\ tagged(slid, "static") # {}
    /\ Len(lastCall.result.scoreDeltas) = 2

\* C36: the best score is never below the current score: every game starts
\* from a model with bestScore >= sum(scoreDeltas), and every model stored
\* after move, prepareMove and continueGameModel calls keeps it so.
C36_BestScoreAtLeastScore ==
    model.bestScore >= sumSeq(model.scoreDeltas)

\* a merge took the score past the best score loaded at the start, which was
\* raised to it
C36_Witness ==
    /\ wasMove
    /\ lastCall.input.bestScore > sumSeq(lastCall.input.scoreDeltas)
    /\ model.bestScore > lastCall.input.bestScore
    /\ model.bestScore = sumSeq(model.scoreDeltas)

\* the last step was a render, on its own or after an input
wasRender == lastCall.op \in {"onMove", "render"}

\* C38: inputs in quick succession never lose a move: in no render is a
\* move's result, once stored, replaced by a later update with the model
\* prepared from the snapshot an input handler read before that move; and an
\* input received while the rendered status is Won or Over changes neither
\* the stored model nor the queues nor the random source.
C38_NoMoveLost ==
    /\ wasRender
          => \A i, j \in 1 .. Len(lastCall.updates) :
                (i < j /\ lastCall.applied[i])
                    => lastCall.updates[j].kind # "value"
    /\ (lastCall.op = "onMove"
            /\ lastCall.snapshot.gameStatus \in {"won", "over"})
          => /\ model = lastCall.snapshot
             /\ hook.randomRef = lastCall.randomRef
             /\ hook.frames = lastCall.frames
             /\ hook.updates = << >>

\* a step in which a move changed the board without winning
spawningStep ==
    /\ lastCall'.op = "move"
    /\ lastCall' # lastCall
    /\ lastCall'.result # Null
    /\ ~everyStatic(lastCall'.moved)
    /\ model'.gameStatus # "won"

====
